---- MODULE Spec2Model ----
(***************************************************************************)
(* A model of eth_balance_server.py: the startup sequence that builds the  *)
(* chain-client registry, and the two tool handlers get_wallet_balance and *)
(* analyze_wallet_risk, each running as a task that is suspended at its    *)
(* network awaits and may be interleaved with another task there.          *)
(***************************************************************************)
EXTENDS Integers, Sequences, FiniteSets, TLC

VARIABLES
    env,        \* os.getenv: the value of ETH_RPC, POL_RPC and ARB_RPC
    entry,      \* which startup routine of the module runs
    hasState,   \* whether the FastMCP object offers a `state` namespace
    pc,         \* the process: "init", "serving" or "exited"
    idx,        \* position of initialize_blockchain_clients in its loop
    clients,    \* the dict initialize_blockchain_clients builds and returns
    registry,   \* mcp.state.clients as the handlers read it
    exitStatus, \* the exit status of the process once it has exited
    lastLog,    \* the last message handed to the logger
    served,     \* whether any tool call has been dispatched to a handler
    tasks,      \* the tool calls suspended at an await, one per task slot
    reply       \* the call that returned in the step just taken (NoReply if none):
                \* its inputs, what it did and its outcome

vars == <<env, entry, hasState, pc, idx, clients, registry, exitStatus,
          lastLog, served, tasks, reply>>

(***************************************************************************)
(* Strings the code inspects character by character are sequences of       *)
(* one-character strings, so that str.lower() is computed, not assumed.    *)
(***************************************************************************)
UpperAlpha == <<"A","B","C","D","E","F","G","H","I","J","K","L","M",
                "N","O","P","Q","R","S","T","U","V","W","X","Y","Z">>
LowerAlpha == <<"a","b","c","d","e","f","g","h","i","j","k","l","m",
                "n","o","p","q","r","s","t","u","v","w","x","y","z">>

LowerChar(c) ==
    IF \E k \in 1..Len(UpperAlpha) : UpperAlpha[k] = c
    THEN LowerAlpha[CHOOSE k \in 1..Len(UpperAlpha) : UpperAlpha[k] = c]
    ELSE c

Lower(s) == [k \in 1..Len(s) |-> LowerChar(s[k])]

S_eth      == <<"e","t","h">>
S_ethereum == <<"e","t","h","e","r","e","u","m">>
S_polygon  == <<"p","o","l","y","g","o","n">>
S_matic    == <<"m","a","t","i","c">>
S_arbitrum == <<"a","r","b","i","t","r","u","m">>
S_solana   == <<"s","o","l","a","n","a">>

\* The tool calls of the model: addresses and chain identifiers as the agent
\* writes them.
EvmAddr == "0x52908400098527886E0F7030069857D2E4169EE7"
SolAddr == "4Nd1mBQtrMJVYVfKf2PJy9NZUZdTAsp7D4xWLs4gDB4T"
BadAddr == "not-a-key"

C_ETH     == <<"E","T","H">>
C_SOLANA  == <<"S","O","L","A","N","A">>
C_bitcoin == <<"b","i","t","c","o","i","n">>

Calls ==
    {[address |-> EvmAddr, chain |-> c] :
        c \in {S_eth, C_ETH, S_ethereum, S_polygon, S_matic, S_arbitrum, C_bitcoin}}
    \cup {[address |-> a, chain |-> c] :
        a \in {SolAddr, BadAddr}, c \in {S_solana, C_SOLANA}}

\* chain.lower() of every chain identifier of the model, computed once.
LowerOf == [s \in {call.chain : call \in Calls} |-> Lower(s)]

(***************************************************************************)
(* Unbounded non-negative integers (Python int, Decimal coefficients) as   *)
(* little-endian sequences of 15-bit limbs without leading zero limbs:     *)
(* the balances of the code exceed the 32-bit integers of the checker.     *)
(***************************************************************************)
Base == 2^15

RECURSIVE Norm(_)
Norm(a) == IF a = <<>> THEN <<>>
           ELSE IF a[Len(a)] = 0 THEN Norm(SubSeq(a, 1, Len(a) - 1)) ELSE a

Limb(a, k) == IF k <= Len(a) THEN a[k] ELSE 0

BigOfInt(n) == Norm(<<n % Base, (n \div Base) % Base, n \div (Base * Base)>>)

RECURSIVE AddFrom(_, _, _, _)
AddFrom(a, b, k, carry) ==
    IF k > Len(a) /\ k > Len(b)
    THEN IF carry = 0 THEN <<>> ELSE <<carry>>
    ELSE LET s == Limb(a, k) + Limb(b, k) + carry
         IN  <<s % Base>> \o AddFrom(a, b, k + 1, s \div Base)

Add(a, b) == Norm(AddFrom(a, b, 1, 0))

RECURSIVE SubFrom(_, _, _, _)
SubFrom(a, b, k, borrow) ==
    IF k > Len(a) THEN <<>>
    ELSE LET s == Limb(a, k) - Limb(b, k) - borrow
         IN  IF s < 0 THEN <<s + Base>> \o SubFrom(a, b, k + 1, 1)
                      ELSE <<s>> \o SubFrom(a, b, k + 1, 0)

\* a - b for a >= b
Sub(a, b) == Norm(SubFrom(a, b, 1, 0))

RECURSIVE CmpFrom(_, _, _)
CmpFrom(a, b, k) ==
    IF k = 0 THEN 0
    ELSE IF a[k] < b[k] THEN -1
    ELSE IF a[k] > b[k] THEN 1
    ELSE CmpFrom(a, b, k - 1)

\* -1, 0 or 1 as a < b, a = b or a > b
Cmp(a, b) == IF Len(a) < Len(b) THEN -1
             ELSE IF Len(a) > Len(b) THEN 1
             ELSE CmpFrom(a, b, Len(a))

RECURSIVE MulSmallFrom(_, _, _, _)
MulSmallFrom(a, n, k, carry) ==
    IF k > Len(a)
    THEN IF carry = 0 THEN <<>> ELSE <<carry>>
    ELSE LET s == a[k] * n + carry
         IN  <<s % Base>> \o MulSmallFrom(a, n, k + 1, s \div Base)

\* a * n for 0 <= n < Base
MulSmall(a, n) == Norm(MulSmallFrom(a, n, 1, 0))

RECURSIVE Mul(_, _)
Mul(a, b) ==
    IF b = <<>> THEN <<>>
    ELSE Add(MulSmall(a, b[1]),
             LET r == Mul(a, Tail(b)) IN IF r = <<>> THEN <<>> ELSE <<0>> \o r)

RECURSIVE Pow2Int(_)
Pow2Int(n) == IF n = 0 THEN 1 ELSE 2 * Pow2Int(n - 1)

Pow2(n) == [k \in 1..(n \div 15 + 1) |->
                IF k = n \div 15 + 1 THEN Pow2Int(n % 15) ELSE 0]

RECURSIVE Pow10(_)
Pow10(n) == IF n = 0 THEN <<1>> ELSE MulSmall(Pow10(n - 1), 10)

RECURSIVE IntBitLen(_)
IntBitLen(n) == IF n = 0 THEN 0 ELSE 1 + IntBitLen(n \div 2)

BitLen(a) == IF a = <<>> THEN 0 ELSE 15 * (Len(a) - 1) + IntBitLen(a[Len(a)])

IsOdd(a) == a # <<>> /\ a[1] % 2 = 1

\* One limb of a long division: r < d * Base, the quotient bit by bit.
RECURSIVE LimbDiv(_, _, _)
LimbDiv(r, d, b) ==
    IF b < 0 THEN [q |-> 0, r |-> r]
    ELSE LET db == MulSmall(d, Pow2Int(b))
         IN  IF Cmp(r, db) >= 0
             THEN LET p == LimbDiv(Sub(r, db), d, b - 1)
                  IN  [q |-> Pow2Int(b) + p.q, r |-> p.r]
             ELSE LimbDiv(r, d, b - 1)

RECURSIVE DivLimbs(_, _, _)
DivLimbs(n, d, k) ==
    IF k > Len(n) THEN [q |-> <<>>, r |-> <<>>]
    ELSE LET hi == DivLimbs(n, d, k + 1)
             ld == LimbDiv(Norm(<<n[k]>> \o hi.r), d, 14)
         IN  [q |-> <<ld.q>> \o hi.q, r |-> ld.r]

\* quotient and remainder of n by d > 0
DivMod(n, d) == LET qr == DivLimbs(n, d, 1) IN [q |-> Norm(qr.q), r |-> qr.r]

(***************************************************************************)
(* Python floats (IEEE 754 binary64, round to nearest, ties to even) as    *)
(* [m, e] with value m * 2^e and 2^52 <= m < 2^53, or FloatZero.  The      *)
(* balances of the code are far from the subnormal and overflow ranges.    *)
(***************************************************************************)
FloatZero == [m |-> <<>>, e |-> 0]

RoundQuot(num, den, e) ==
    LET qr == DivMod(num, den)
        twice == Cmp(Add(qr.r, qr.r), den)
        up == twice > 0 \/ (twice = 0 /\ IsOdd(qr.q))
        m == IF up THEN Add(qr.q, <<1>>) ELSE qr.q
    IN  IF Cmp(m, Pow2(53)) = 0 THEN [m |-> Pow2(52), e |-> e + 1]
                                ELSE [m |-> m, e |-> e]

Scaled(n, d, s) ==
    IF s >= 0 THEN RoundQuot(Mul(n, Pow2(s)), d, -s)
              ELSE RoundQuot(n, Mul(d, Pow2(-s)), -s)

\* The binary64 nearest to the exact quotient n / d (d > 0).
RoundedQuotient(n, d) ==
    IF n = <<>> THEN FloatZero
    ELSE LET s == 53 + BitLen(d) - BitLen(n)
             num == IF s >= 0 THEN Mul(n, Pow2(s)) ELSE n
             den == IF s >= 0 THEN d ELSE Mul(d, Pow2(-s))
         IN  IF Cmp(num, Mul(den, Pow2(53))) >= 0
             THEN Scaled(n, d, s - 1) ELSE Scaled(n, d, s)

\* float(n) for a Python int n
FloatOfInt(n) == RoundedQuotient(n, <<1>>)

\* The integer a float holds when its value is integral (e >= 0, or the
\* low -e bits of m are zero).
IntOfFloat(f) ==
    IF f.m = <<>> THEN <<>>
    ELSE IF f.e >= 0 THEN Mul(f.m, Pow2(f.e))
    ELSE DivMod(f.m, Pow2(-f.e)).q

(***************************************************************************)
(* The unit conversions of get_wallet_balance.                             *)
(***************************************************************************)
EtherDecimals == 18
LamportDecimals == 9

\* The conversion with the unit "gwei" in place of "ether".
FromWeiGwei(number) == [coef |-> number, exp |-> -9]

\* AsyncWeb3.from_wei(number, "ether"): the Decimal number / 10^18, exact
\* under the 999-digit context the library divides in; coef * 10^exp.
FromWeiEther(number) == [coef |-> number, exp |-> -EtherDecimals]

\* float(d) for a Decimal d of exponent <= 0: correctly rounded.
FloatOfDecimal(d) == RoundedQuotient(d.coef, Pow10(-d.exp))

\* float(AsyncWeb3.from_wei(balance_wei, "ether"))
EvmBalance(balance_wei) == FloatOfDecimal(FromWeiEther(balance_wei))

\* x / y for floats holding integers: the operands are exact, the quotient
\* is rounded once.
FloatDiv(x, y) == RoundedQuotient(IntOfFloat(x), IntOfFloat(y))

\* resp.value / 1e9: the int is converted to float, then divided.
SolBalance(value) == FloatDiv(FloatOfInt(value), FloatOfInt(Pow10(LamportDecimals)))

\* Balances in the smallest unit: exactly 10^18, and 1234567890123456789,
\* whose quotient by 10^18 is no binary64.
RawBalances ==
    {Pow10(18), Add(Mul(BigOfInt(123456789), Pow10(10)), BigOfInt(123456789))}

\* The conversions of the balances the upstreams answer with, computed once.
EvmBalanceOf == [n \in RawBalances |-> EvmBalance(n)]
SolBalanceOf == [n \in RawBalances |-> SolBalance(n)]

(***************************************************************************)
(* Configuration and the startup sequence.                                 *)
(***************************************************************************)
\* os.getenv gives None for a variable that is not set.
None == "<None>"

EnvNames == {"ETH_RPC", "POL_RPC", "ARB_RPC"}

UrlOf == [ETH_RPC |-> "https://eth.rpc", POL_RPC |-> "https://pol.rpc",
          ARB_RPC |-> "https://arb.rpc"]

\* A check for None alone, which lets the empty string through.
TruthyNoneOnly(v) == v # None

\* Python truthiness of an Optional[str]: `not rpc_url` holds for None and "".
Truthy(v) == v # None /\ v # ""

\* The chains dict of initialize_blockchain_clients, in its iteration order.
ChainOrder == <<"ethereum", "polygon", "arbitrum">>

EnvVarOf == [ethereum |-> "ETH_RPC", polygon |-> "POL_RPC", arbitrum |-> "ARB_RPC"]

\* AsyncWeb3(AsyncHTTPProvider(rpc_url))
Web3Handle(rpc_url) == [kind |-> "web3", endpoint |-> rpc_url]

\* SolClient("https://api.mainnet-beta.solana.com", timeout=30)
SolHandle == [kind |-> "solana", endpoint |-> "https://api.mainnet-beta.solana.com"]

NoHandle == [kind |-> "none", endpoint |-> ""]

EmptyDict == [c \in {} |-> NoHandle]

\* mcp.state.clients before anything is assigned to it.
Unset == [set |-> FALSE, clients |-> EmptyDict]

Exc(cls, msg) == [cls |-> cls, msg |-> msg]

\* What the awaited web3_clientVersion request can do: answer with a result,
\* answer with a JSON-RPC error object (no 'result' key), or fail in transport.
ProbeOutcomes == {"result", "no_result", "transport_error"}

\* Where a failed startup ends.  __main__ (lines 148-149) logs and falls off
\* the end of the script; initialize_server (lines 66-68) logs and calls
\* os._exit(1).
StartupFailed ==
    /\ pc' = "exited"
    /\ IF entry = "main"
       THEN /\ lastLog' = "critical: Fatal error"
            /\ exitStatus' = 0
       ELSE /\ lastLog' = "error: Critical initialization failure"
            /\ exitStatus' = 1
    /\ UNCHANGED <<registry, served, tasks, reply>>

\* One iteration of the loop of initialize_blockchain_clients (lines 39-48),
\* with the handling of an exception it raises (lines 56-58 and the caller).
InitChain ==
    /\ pc = "init"
    /\ idx <= Len(ChainOrder)
    /\ LET chain_name == ChainOrder[idx]
           rpc_url == env[EnvVarOf[chain_name]]
       IN  IF ~Truthy(rpc_url)
           THEN /\ StartupFailed
                /\ UNCHANGED <<idx, clients>>
           ELSE \E probe \in ProbeOutcomes :
                  IF probe = "transport_error"
                  THEN /\ StartupFailed
                       /\ UNCHANGED <<idx, clients>>
                  ELSE /\ clients' = clients @@ (chain_name :> Web3Handle(rpc_url))
                       /\ IF probe = "no_result"
                          THEN /\ StartupFailed
                               /\ UNCHANGED idx
                          ELSE /\ idx' = idx + 1
                               /\ lastLog' = "info: Connected to node"
                               /\ UNCHANGED <<pc, registry, exitStatus, served,
                                              tasks, reply>>
    /\ UNCHANGED <<env, entry, hasState>>

\* The end of initialize_blockchain_clients (lines 50-55) and what its caller
\* does with the dict it returns: __main__ (lines 143-144) drops it and runs
\* the server; initialize_server (lines 64-65) assigns it to mcp.state.clients.
InitFinish ==
    /\ pc = "init"
    /\ idx = Len(ChainOrder) + 1
    /\ IF entry = "main"
       THEN /\ pc' = "serving"
            /\ idx' = idx + 1
            /\ lastLog' = "info: Connected to SOLANA node"
            /\ UNCHANGED <<registry, exitStatus, served, tasks, reply>>
       ELSE IF hasState
       THEN /\ pc' = "serving"
            /\ idx' = idx + 1
            /\ registry' = [set |-> TRUE, clients |-> clients]
            /\ lastLog' = "info: All blockchain connections verified"
            /\ UNCHANGED <<exitStatus, served, tasks, reply>>
       ELSE /\ StartupFailed
            /\ UNCHANGED idx
    /\ UNCHANGED <<env, entry, hasState, clients>>

(***************************************************************************)
(* The tool handlers.  A block of code ends by returning a value, by       *)
(* raising an exception, or by suspending at an await.                     *)
(***************************************************************************)
Return(v) == [kind |-> "return", value |-> v]
Raise(e) == [kind |-> "raise", exc |-> e]
Await(h, label) == [kind |-> "await", upstream |-> h, label |-> label]

\* `except ValueError` catches ValueError and its subclasses.
IsValueError(e) == e.cls = "ValueError"

\* Pubkey.from_string(address) accepts the base58 encoding of 32 bytes.
ValidPubkey(address) == address = SolAddr

\* mcp.state.clients (line 76)
ReadRegistry ==
    IF registry.set THEN Return(registry.clients)
    ELSE Raise(Exc("AttributeError",
                   IF hasState THEN "object has no attribute 'clients'"
                               ELSE "object has no attribute 'state'"))

\* clients[key].eth.get_balance(...) / clients[key].get_balance(...): the
\* subscript raises KeyError when the dict has no such key.
Lookup(cl, key, label) ==
    IF key \in DOMAIN cl THEN Await(cl[key], label)
    ELSE Raise(Exc("KeyError", "'" \o key \o "'"))

\* Only the first except clause: anything but a ValueError propagates.
GwbExceptNarrow(e) ==
    IF IsValueError(e) THEN Return([error |-> "Invalid wallet address"])
    ELSE Raise(e)

\* The except clauses of get_wallet_balance (lines 97-102).
GwbExcept(e) ==
    IF IsValueError(e) THEN Return([error |-> "Invalid wallet address"])
    ELSE Return([error |-> e.msg])

\* The body of the try of get_wallet_balance up to its await (lines 75-95).
GwbBody(address, chain) ==
    LET c == LowerOf[chain]
        r == ReadRegistry
    IN  IF r.kind = "raise" THEN r
        ELSE IF c \in {S_eth, S_ethereum} THEN Lookup(r.value, "ethereum", "Ethereum")
        ELSE IF c \in {S_polygon, S_matic} THEN Lookup(r.value, "polygon", "Polygon")
        ELSE IF c = S_arbitrum THEN Lookup(r.value, "arbitrum", "Arbitrum")
        ELSE IF c = S_solana
        THEN IF ValidPubkey(address) THEN Lookup(r.value, "solana", "Solana")
             ELSE Raise(Exc("ValueError", "Invalid Base58 string"))
        ELSE Return([error |-> "Unsupported chain"])

\* get_wallet_balance from its call to its first await or its return.
GwbEntry(address, chain) ==
    LET o == GwbBody(address, chain)
    IN  IF o.kind = "raise" THEN GwbExcept(o.exc) ELSE o

\* get_wallet_balance from the answer of the upstream to its return
\* (lines 79-80, 83-84, 87-88, 92-93 and the except clauses).
GwbResume(label, r) ==
    IF r.kind = "error" THEN GwbExcept(r.exc)
    ELSE Return([chain |-> label,
                 balance |-> IF label = "Solana" THEN SolBalanceOf[r.raw]
                                                 ELSE EvmBalanceOf[r.raw]])

\* The except clause of analyze_wallet_risk (lines 133-135).
AnalyzeExcept(e) == Return([error |-> e.msg])

\* An error of the balance lookup reported under a message of its own.
AfterBalanceRewrap(o) ==
    IF o.kind = "raise" THEN AnalyzeExcept(o.exc)
    ELSE IF "error" \in DOMAIN o.value THEN Return([error |-> "Balance lookup failed"])
    ELSE [kind |-> "post", balance_data |-> o.value]

\* analyze_wallet_risk after the call of get_wallet_balance (lines 110-112):
\* return the error value, or go on to the classification request.
AfterBalance(o) ==
    IF o.kind = "raise" THEN AnalyzeExcept(o.exc)
    ELSE IF "error" \in DOMAIN o.value THEN Return(o.value)
    ELSE [kind |-> "post", balance_data |-> o.value]

\* max(results, key=lambda x: x["score"]) over a non-empty list: the first
\* item is the best so far, a later one replaces it only when its key is
\* strictly greater.
RECURSIVE MaxFrom(_, _, _)
MaxFrom(items, k, best) ==
    IF k > Len(items) THEN best
    ELSE MaxFrom(items, k + 1, IF items[k].score > best.score THEN items[k] ELSE best)

\* A selection that lets a later item replace an equal one: the last maximum.
RECURSIVE MaxFromLast(_, _, _)
MaxFromLast(items, k, best) ==
    IF k > Len(items) THEN best
    ELSE MaxFromLast(items, k + 1, IF items[k].score >= best.score THEN items[k] ELSE best)

MaxByScoreLast(items) == MaxFromLast(items, 2, items[1])

MaxByScore(items) == MaxFrom(items, 2, items[1])

\* max(...) over what response.json() gave (line 130).
PyMax(body) ==
    IF body.shape = "dict"
    THEN Raise(Exc("TypeError", "string indices must be integers"))
    ELSE IF body.shape = "nested"
    THEN Raise(Exc("TypeError", "list indices must be integers or slices, not str"))
    ELSE IF body.items = <<>>
    THEN Raise(Exc("ValueError", "max() arg is an empty sequence"))
    ELSE Return(MaxByScore(body.items))

\* httpx: raise_for_status() raises unless the status is 2xx.
IsSuccess(status) == status >= 200 /\ status < 300

\* analyze_wallet_risk from the answer of the classification service to its
\* return (lines 123-135).
AnalyzeResume(address, chain, balance_data, h) ==
    IF h.kind = "transport_error"
    THEN AnalyzeExcept(Exc("ConnectError", "All connection attempts failed"))
    ELSE IF ~IsSuccess(h.status)
    THEN AnalyzeExcept(Exc("HTTPStatusError", "Client or server error for url"))
    ELSE LET m == PyMax(h.body)
         IN  IF m.kind = "raise" THEN AnalyzeExcept(m.exc)
             ELSE Return([address |-> address, chain |-> chain,
                          balance |-> balance_data.balance,
                          risk_analysis |-> m.value])

(***************************************************************************)
(* The inputs of the model: the tool calls the agent makes and what the    *)
(* upstream services answer.                                               *)
(***************************************************************************)
MaxCands == 2

TaskIds == {"t1", "t2"}

Tools == {"get_wallet_balance", "analyze_wallet_risk"}

UpstreamOutcomes ==
    {[kind |-> "value", raw |-> n, exc |-> Exc("", "")] : n \in RawBalances}
    \cup {[kind |-> "error", raw |-> <<>>, exc |-> e] :
            e \in {Exc("ValueError", "{'code': -32602, 'message': 'invalid argument'}"),
                   Exc("ClientConnectorError", "Cannot connect to host")}}

\* Candidates of the classification service; scores in tenths.
Candidates == [label : {"positive", "negative"}, score : {2, 9}]

CandLists == UNION {[1..n -> Candidates] : n \in 0..MaxCands}

NoBody == [shape |-> "none", items |-> <<>>]

HfOutcomes ==
    {[kind |-> "transport_error", status |-> 0, body |-> NoBody]}
    \cup {[kind |-> "response", status |-> c, body |-> [shape |-> "dict", items |-> <<>>]] :
            c \in {401, 503}}
    \cup {[kind |-> "response", status |-> 200, body |-> [shape |-> "list", items |-> l]] :
            l \in CandLists}
    \cup {[kind |-> "response", status |-> 200, body |-> [shape |-> sh, items |-> <<>>]] :
            sh \in {"dict", "nested"}}

Pending == [pending |-> TRUE]
NoOutcome == [kind |-> "none"]
NoHf == [kind |-> "none", status |-> 0, body |-> NoBody]

Idle == [pc |-> "idle", tool |-> "none", address |-> "", chain |-> <<>>,
         upstream |-> NoHandle, label |-> "", raw |-> <<>>, balance_data |-> Pending]

NoReply == [tool |-> "none", address |-> "", chain |-> <<>>, upstream |-> NoHandle,
            raw |-> <<>>, gwb |-> NoOutcome, hfRequested |-> FALSE, hf |-> NoHf,
            outcome |-> NoOutcome]

Init ==
    /\ env \in {e \in [EnvNames -> {None, ""} \cup {UrlOf[n] : n \in EnvNames}] :
                  \A n \in EnvNames : e[n] \in {None, "", UrlOf[n]}}
    /\ entry \in {"main", "server"}
    /\ hasState \in BOOLEAN
    /\ pc = "init"
    /\ idx = 1
    /\ clients = EmptyDict
    /\ registry = Unset
    /\ exitStatus = -1
    /\ lastLog = "info: Starting"
    /\ served = FALSE
    /\ tasks = [t \in TaskIds |-> Idle]
    /\ reply = NoReply

\* A call of task t has come to the end of get_wallet_balance with outcome
\* gwb.  For the tool get_wallet_balance that is the reply; for
\* analyze_wallet_risk lines 111-122 follow, up to the await of the POST.
Complete(t, tool, address, chain, upstream, raw, gwb) ==
    LET a == IF tool = "get_wallet_balance" THEN gwb ELSE AfterBalance(gwb)
    IN  IF a.kind = "post"
        THEN /\ tasks' = [tasks EXCEPT ![t] =
                            [pc |-> "await_hf", tool |-> tool, address |-> address,
                             chain |-> chain, upstream |-> upstream, label |-> "",
                             raw |-> raw, balance_data |-> a.balance_data]]
             /\ reply' = NoReply
        ELSE /\ tasks' = [tasks EXCEPT ![t] = Idle]
             /\ reply' = [tool |-> tool, address |-> address, chain |-> chain,
                              upstream |-> upstream, raw |-> raw, gwb |-> gwb,
                              hfRequested |-> FALSE, hf |-> NoHf, outcome |-> a]

\* The host runtime dispatches a tool call to its handler, which runs to its
\* first await or to its return.
StartCall(t) ==
    /\ pc = "serving"
    /\ tasks[t].pc = "idle"
    /\ \E tool \in Tools, call \in Calls :
         LET o == GwbEntry(call.address, call.chain)
         IN  IF o.kind = "await"
             THEN /\ tasks' = [tasks EXCEPT ![t] =
                                 [pc |-> "await_balance", tool |-> tool,
                                  address |-> call.address, chain |-> call.chain,
                                  upstream |-> o.upstream, label |-> o.label,
                                  raw |-> <<>>, balance_data |-> Pending]]
                  /\ reply' = NoReply
             ELSE Complete(t, tool, call.address, call.chain, NoHandle, <<>>, o)
    /\ served' = TRUE
    /\ UNCHANGED <<env, entry, hasState, pc, idx, clients, registry, exitStatus, lastLog>>

\* The balance lookup of task t is answered and the task runs on.
BalanceResponse(t) ==
    /\ pc = "serving"
    /\ tasks[t].pc = "await_balance"
    /\ \E r \in UpstreamOutcomes :
         Complete(t, tasks[t].tool, tasks[t].address, tasks[t].chain,
                  tasks[t].upstream, IF r.kind = "value" THEN <<r.raw>> ELSE <<>>,
                  GwbResume(tasks[t].label, r))
    /\ UNCHANGED <<env, entry, hasState, pc, idx, clients, registry, exitStatus,
                   lastLog, served>>

\* The classification request of task t is answered and the task returns.
HfResponse(t) ==
    /\ pc = "serving"
    /\ tasks[t].pc = "await_hf"
    /\ \E h \in HfOutcomes :
         /\ tasks' = [tasks EXCEPT ![t] = Idle]
         /\ reply' = [tool |-> tasks[t].tool, address |-> tasks[t].address,
                          chain |-> tasks[t].chain, upstream |-> tasks[t].upstream,
                          raw |-> tasks[t].raw,
                          gwb |-> Return(tasks[t].balance_data),
                          hfRequested |-> TRUE, hf |-> h,
                          outcome |-> AnalyzeResume(tasks[t].address, tasks[t].chain,
                                                    tasks[t].balance_data, h)]
    /\ UNCHANGED <<env, entry, hasState, pc, idx, clients, registry, exitStatus,
                   lastLog, served>>

\* The run loop ends: a keyboard interrupt (lines 146-147) or the end of the
\* input (line 145), and the script falls off its end.
Stop ==
    /\ pc = "serving"
    /\ pc' = "exited"
    /\ exitStatus' = 0
    /\ tasks' = [t \in TaskIds |-> Idle]
    /\ \E cause \in {"interrupt", "eof"} :
         lastLog' = IF entry # "main" THEN lastLog
                    ELSE IF cause = "interrupt" THEN "info: Server stopped by user"
                    ELSE "info: Ready to receive Claude requests"
    /\ reply' = NoReply
    /\ UNCHANGED <<env, entry, hasState, idx, clients, registry, served>>

Next ==
    \/ InitChain
    \/ InitFinish
    \/ \E t \in TaskIds : StartCall(t)
    \/ \E t \in TaskIds : BalanceResponse(t)
    \/ \E t \in TaskIds : HfResponse(t)
    \/ Stop

Spec == Init /\ [][Next]_vars

(***************************************************************************)
(* The claims.                                                             *)
(***************************************************************************)
Replied == reply.tool # "none"

SupportedAliases == {S_eth, S_ethereum, S_polygon, S_matic, S_arbitrum, S_solana}

\* The chain an alias stands for.
ChainOfAlias(c) ==
    IF c \in {S_eth, S_ethereum} THEN "ethereum"
    ELSE IF c \in {S_polygon, S_matic} THEN "polygon"
    ELSE IF c = S_arbitrum THEN "arbitrum"
    ELSE "solana"

\* The client of a chain: the one startup opens on the chain's endpoint.
ClientOfChain(name) ==
    IF name = "solana" THEN SolHandle ELSE Web3Handle(env[EnvVarOf[name]])

\* C1: every call of get_wallet_balance with a supported alias (any letter
\* case) issues its balance lookup to the client of the matching chain, and a
\* call with any other chain string returns {error: "Unsupported chain"}
\* without a request to any upstream.  (A Solana call with a malformed
\* address is left to C6.)
C1_Routing ==
    /\ \A t \in TaskIds :
         tasks[t].pc = "await_balance" =>
            /\ Lower(tasks[t].chain) \in SupportedAliases
            /\ tasks[t].upstream = ClientOfChain(ChainOfAlias(Lower(tasks[t].chain)))
    /\ (reply.tool = "get_wallet_balance") =>
         IF Lower(reply.chain) \in SupportedAliases
         THEN \/ reply.upstream = ClientOfChain(ChainOfAlias(Lower(reply.chain)))
              \/ Lower(reply.chain) = S_solana /\ reply.address = BadAddr
         ELSE /\ reply.outcome = Return([error |-> "Unsupported chain"])
              /\ reply.upstream = NoHandle
              /\ ~reply.hfRequested

BalanceError(o) == o.kind = "return" /\ "error" \in DOMAIN o.value

\* C2: when the get_wallet_balance call inside analyze_wallet_risk returns an
\* error value, analyze_wallet_risk returns that same value and sends no
\* request to the classification service.
C2_ErrorPropagated ==
    /\ (reply.tool = "analyze_wallet_risk" /\ BalanceError(reply.gwb)) =>
            reply.outcome = reply.gwb /\ ~reply.hfRequested
    /\ \A t \in TaskIds :
         tasks[t].pc = "await_hf" => "error" \notin DOMAIN tasks[t].balance_data

C2_Witness ==
    /\ reply.tool = "analyze_wallet_risk"
    /\ reply.gwb = Return([error |-> "Invalid wallet address"])
    /\ reply.outcome = reply.gwb

MissingConfig == \E n \in EnvNames : env[n] \in {None, ""}

\* C3: when ETH_RPC, POL_RPC or ARB_RPC is absent or empty, startup goes no
\* further than the first chain whose value is missing, the process never
\* serves, and no tool call is ever dispatched.
C3_NoServiceWithoutConfig ==
    MissingConfig =>
        /\ pc \in {"init", "exited"}
        /\ ~served
        /\ \A k \in 1..(idx - 1) :
             k <= Len(ChainOrder) => env[EnvVarOf[ChainOrder[k]]] \notin {None, ""}

C3_Witness ==
    /\ env["ETH_RPC"] = UrlOf["ETH_RPC"]
    /\ env["POL_RPC"] = ""
    /\ idx = 2
    /\ pc = "exited"

\* C4: while the process serves, the registry the handlers read holds an
\* entry for ethereum, polygon, arbitrum and solana.
C4_RegistryComplete ==
    pc = "serving" =>
        /\ registry.set
        /\ {"ethereum", "polygon", "arbitrum", "solana"} \subseteq DOMAIN registry.clients

\* What went wrong in the call that has just returned, if anything.
FailureOccurred ==
    \/ Lower(reply.chain) \notin SupportedAliases
    \/ reply.raw = <<>>
    \/ /\ reply.tool = "analyze_wallet_risk"
       /\ \/ reply.hf.kind # "response"
          \/ ~(reply.hf.status >= 200 /\ reply.hf.status < 300)
          \/ reply.hf.body.shape # "list"
          \/ reply.hf.body.items = <<>>

\* C5: every call returns a value, never an exception; a call in which
\* anything failed returns {error: <string>} and nothing else; and the
\* process is still serving, with a free task slot, once it has returned.
C5_StructuredErrors ==
    Replied =>
        /\ reply.outcome.kind = "return"
        /\ IF FailureOccurred
           THEN /\ DOMAIN reply.outcome.value = {"error"}
                /\ reply.outcome.value.error \in STRING
           ELSE "error" \notin DOMAIN reply.outcome.value
        /\ pc = "serving"
        /\ \E t \in TaskIds : tasks[t].pc = "idle"

C5_Witness ==
    /\ reply.tool = "get_wallet_balance"
    /\ reply.upstream # NoHandle
    /\ reply.outcome = Return([error |-> "Cannot connect to host"])

\* C6: get_wallet_balance with chain "solana" in any letter case and an
\* address that is no Solana public key returns exactly
\* {error: "Invalid wallet address"}.
C6_InvalidSolanaAddress ==
    (/\ reply.tool = "get_wallet_balance"
     /\ Lower(reply.chain) = S_solana
     /\ reply.address = BadAddr)
        => reply.outcome = Return([error |-> "Invalid wallet address"])

\* Startup has failed: the process has exited without reaching the run loop.
StartupHasFailed == pc = "exited" /\ idx <= Len(ChainOrder) + 1

\* C7: a process whose startup has failed has exited with a non-zero status,
\* having logged a final error message.
C7_FailedStartupExitStatus ==
    StartupHasFailed =>
        /\ exitStatus # 0
        /\ lastLog \in {"critical: Fatal error", "error: Critical initialization failure"}

\* C8: when the classification service answers with a success status and a
\* non-empty list of candidates, risk_analysis is a candidate of maximum
\* score, and the first such candidate of the list.
C8_FirstMaximum ==
    (/\ reply.tool = "analyze_wallet_risk"
     /\ reply.hf.kind = "response"
     /\ reply.hf.status >= 200 /\ reply.hf.status < 300
     /\ reply.hf.body.shape = "list"
     /\ reply.hf.body.items # <<>>)
        => /\ reply.outcome.kind = "return"
           /\ "risk_analysis" \in DOMAIN reply.outcome.value
           /\ LET items == reply.hf.body.items
              IN  \E k \in 1..Len(items) :
                     /\ reply.outcome.value.risk_analysis = items[k]
                     /\ \A j \in 1..Len(items) : items[j].score <= items[k].score
                     /\ \A j \in 1..(k - 1) : items[j].score < items[k].score

C8_Witness ==
    /\ reply.tool = "analyze_wallet_risk"
    /\ reply.hf.body.items = <<[label |-> "positive", score |-> 2],
                               [label |-> "negative", score |-> 9]>>
    /\ reply.outcome.kind = "return"
    /\ reply.outcome.value.risk_analysis = [label |-> "negative", score |-> 9]

\* |a - b|
AbsDiff(a, b) == IF Cmp(a, b) >= 0 THEN Sub(a, b) ELSE Sub(b, a)

\* f is a binary64 within half a unit in its last place of the quotient
\* n / d: the quotient rounded to nearest.
IsNearest(f, n, d) ==
    IF n = <<>> THEN f = FloatZero
    ELSE /\ Cmp(f.m, Pow2(52)) >= 0
         /\ Cmp(f.m, Pow2(53)) < 0
         /\ IF f.e <= 0
            THEN Cmp(MulSmall(AbsDiff(Mul(f.m, d), Mul(n, Pow2(-f.e))), 2), d) <= 0
            ELSE Cmp(MulSmall(AbsDiff(Mul(Mul(f.m, Pow2(f.e)), d), n), 2),
                     Mul(Pow2(f.e), d)) <= 0

HandlerStep == pc = "serving" /\ pc' = "serving" /\ (tasks' # tasks \/ reply' # NoReply)

\* C10: every step of a handler reads the registry that the startup sequence
\* built, and leaves it as it is.
C10_RegistryBuiltAndFrozen ==
    [][HandlerStep => /\ registry = [set |-> TRUE, clients |-> clients]
                      /\ registry' = registry]_vars

====
